---- MODULE Spec2Model ----
(***************************************************************************)
(* check50: the check runner (decorator `check`, unittest suite, the       *)
(* TestResult) and the process session (`Child`, `Checks.spawn`,           *)
(* `Checks.tearDown`) of src/check50.py.                                   *)
(*                                                                         *)
(* Strings are sequences of one-character strings.  A check body is any    *)
(* sequence of session operations followed by a return or a raise.  A      *)
(* child process is an environment process: it writes its output one       *)
(* character at a time, may close its output, and may exit.  Wall-clock    *)
(* time is one bit per blocking operation: `expired` becomes TRUE when     *)
(* the operation's deadline has passed.                                    *)
(***************************************************************************)
EXTENDS Integers, Sequences, FiniteSets, TLC

----------------------------------------------------------------------------
(* Bounds of the model *)

MaxChecks == 3
MaxChildren == 2
MaxLog == 2

Names == {"A", "B", "C"}
Ord(n) == CASE n = "A" -> 1 [] n = "B" -> 2 [] n = "C" -> 3
ExitCodes == {0, 1}

----------------------------------------------------------------------------
(* Values *)

PASS == "PASS"
FAIL == "FAIL"
SKIP == "SKIP"
UNSET == "UNSET"
NoDep == "None"
None == -1

CR == "\r"
LF == "\n"
EOF == <<"<EOF>">>

\* what a spawned program may print
Silent == <<>>
Programs == {Silent, <<"h", LF>>}
\* what a check may expect on stdout: a pattern, or the content of a File (literal)
StdoutArgs == {[output |-> <<"h">>, literal |-> FALSE],
               [output |-> <<"h", LF>>, literal |-> TRUE],
               [output |-> <<".">>, literal |-> FALSE],
               [output |-> <<".">>, literal |-> TRUE],
               [output |-> EOF, literal |-> FALSE]}

NoRationale == [kind |-> "none"]
Text(msg, arg) == [kind |-> "text", msg |-> msg, arg |-> arg]
Mismatch(expected, actual) == [kind |-> "mismatch", expected |-> expected, actual |-> actual]
Exception(exc) == [kind |-> "exception", exc |-> exc]
\* Error(rationale, helpers, result), and the exceptions that are no Error
Error(rationale, helpers, result) ==
    [exc |-> "Error", rationale |-> rationale, helpers |-> helpers, result |-> result]
Other(exc) == [exc |-> exc]
NoExc == [exc |-> "none"]

----------------------------------------------------------------------------
(* String functions *)

RECURSIVE Replace(_, _, _)
\* str.replace(from, to), from being CR LF or LF
Replace(s, from, to) ==
    IF s = <<>> THEN <<>>
    ELSE IF Len(s) >= Len(from) /\ SubSeq(s, 1, Len(from)) = from
         THEN to \o Replace(SubSeq(s, Len(from) + 1, Len(s)), from, to)
         ELSE <<Head(s)>> \o Replace(Tail(s), from, to)

RECURSIVE LStrip(_)
\* str.lstrip("\n")
LStrip(s) == IF s # <<>> /\ Head(s) = LF THEN LStrip(Tail(s)) ELSE s

ToTerminal(s) == Replace(s, <<LF>>, <<CR, LF>>)
FromTerminal(s) == Replace(s, <<CR, LF>>, <<LF>>)

RECURSIVE Reverse(_)
Reverse(s) == IF s = <<>> THEN <<>> ELSE Reverse(Tail(s)) \o <<Head(s)>>

\* Mismatch.raw: repr without the quotes, cut at 15 characters
RawLimit == 15
Escape(c) == IF c = LF THEN <<"\\", "n">> ELSE IF c = CR THEN <<"\\", "r">> ELSE <<c>>
RECURSIVE Repr(_)
Repr(s) == IF s = <<>> THEN <<>> ELSE Escape(Head(s)) \o Repr(Tail(s))
\* a formatter that cuts the text before it is escaped
RawCutFirst(s) ==
    IF s = EOF THEN <<"E", "O", "F">>
    ELSE <<"\"">> \o (IF Len(s) > RawLimit
                     THEN Repr(SubSeq(s, 1, RawLimit)) \o <<".", ".", ".">>
                     ELSE Repr(s)) \o <<"\"">>
Raw(s) ==
    IF s = EOF THEN <<"E", "O", "F">>
    ELSE LET r == Repr(s)
         IN  <<"\"">> \o (IF Len(r) > RawLimit
                          THEN SubSeq(r, 1, RawLimit) \o <<".", ".", ".">>
                          ELSE r) \o <<"\"">>

\* "\n".join(s) of a list of strings
RECURSIVE Join(_)
Join(list) ==
    IF list = <<>> THEN <<>>
    ELSE IF Len(list) = 1 THEN Head(list)
    ELSE Head(list) \o <<LF>> \o Join(Tail(list))
\* Mismatch.__str__: the template and what fills it
Str(m) == Text("expected {}, not {}", <<Raw(m.expected), Raw(m.actual)>>)

----------------------------------------------------------------------------
VARIABLES
    pc,            \* where the program is
    test_cases,    \* config.test_cases
    dependency,    \* the dependency closed over by each check's wrapper
    audited,       \* the checks decorated with valgrind
    installed,     \* which("valgrind") finds the tool
    use_valgrind,  \* Checks._valgrind of each test case
    xml,           \* the report valgrind left in the directory of the running test case
    test_results,  \* config.test_results
    cur,           \* index of the test case the suite is running
    result,        \* Checks.result of each test case
    rationale,     \* Checks.rationale of each test case
    helpers,       \* Checks.helpers of each test case
    dir,           \* Checks.dir of each test case (NoDep: attribute not set)
    log,           \* Checks.log of the running test case
    children,      \* Checks.children of the running test case (indexes into procs)
    procs,         \* the sessions spawned by the running test case
    dirs,          \* the directories of config.tempdir
    results,       \* TestResult.results
    failures,      \* unittest.TestResult.failures
    outcome,       \* how the test method ended, as unittest sees it
    raised,        \* the exception that ended the test method
    torn,          \* tearDown has run for the running test case
    reported,      \* the running test case was handed to the TestResult
    exitCode,      \* the exit status of check50 (None while running)
    op,            \* the session operation in progress
    expired,       \* the deadline of the operation in progress has passed
    bodyRuns,      \* times the body of each test case was entered
    killLog,       \* the sessions killed by tearDown, in order
    raw_s,         \* the argument of a call of Mismatch.raw or Mismatch.__str__
    raw_out,       \* what that call returned (empty: not called yet)
    environ        \* os.environ of check50: the names of its variables

declVars == <<test_cases, dependency, audited, installed>>
rawVars == <<raw_s, raw_out>>
verdictVars == <<result, rationale, helpers, test_results>>
caseVars == <<result, rationale, helpers, test_results, use_valgrind>>
sessVars == <<log, children, procs, op, expired>>
unitVars == <<outcome, raised, torn, reported>>
vars == <<pc, test_cases, dependency, audited, installed, use_valgrind, xml, test_results, cur, result, rationale, helpers,
          dir, log, children, procs, dirs, results, failures, outcome, raised,
          torn, reported, exitCode, op, expired, bodyRuns, killLog, raw_s, raw_out, environ>>

NoOp == [name |-> "none"]
\* the environment check50 was started with, and spawn's env=None
Inherited == {"PATH"}
NoEnv == {}
N == Len(test_cases)
name == test_cases[cur]

Init ==
    /\ pc = "declare"
    /\ test_cases = <<>>
    /\ dependency = [n \in Names |-> NoDep]
    /\ audited = [n \in Names |-> FALSE]
    /\ installed \in BOOLEAN
    /\ use_valgrind = <<>>
    /\ xml = <<>>
    /\ test_results = [n \in Names |-> UNSET]
    /\ cur = 0
    /\ result = <<>>
    /\ rationale = <<>>
    /\ helpers = <<>>
    /\ dir = <<>>
    /\ log = <<>>
    /\ children = <<>>
    /\ procs = <<>>
    /\ dirs = {"_"}
    /\ results = <<>>
    /\ failures = <<>>
    /\ outcome = "none"
    /\ raised = NoExc
    /\ torn = FALSE
    /\ reported = FALSE
    /\ exitCode = None
    /\ op = NoOp
    /\ expired = FALSE
    /\ bodyRuns = <<>>
    /\ killLog = <<>>
    /\ environ = Inherited
    /\ raw_s = <<>>
    /\ raw_out = <<>>

----------------------------------------------------------------------------
(* Declaration: the decorator `check` runs once per decorated function *)

Declare(n, dep) ==
    /\ pc = "declare"
    /\ Len(test_cases) < MaxChecks
    \* names are interchangeable: a new name is the first one not yet used
    /\ \A m \in Names : Ord(m) < Ord(n) => m \in {test_cases[i] : i \in 1..Len(test_cases)}
    /\ test_cases' = Append(test_cases, n)
    /\ dependency' = [dependency EXCEPT ![n] = dep]
    /\ UNCHANGED <<audited, installed, use_valgrind, xml, rawVars, environ>>
    /\ UNCHANGED <<pc, test_results, cur, result, rationale, helpers, dir, dirs,
                   results, failures, exitCode, bodyRuns, killLog>>
    /\ UNCHANGED <<sessVars, unitVars>>

\* The decorator `valgrind` runs when the function it decorates is defined:
\* below @check it runs before check registers the name, above @check after.
\* `config.test_cases[-1]` raises IndexError while no check is registered; the
\* exception leaves the import of the checks and ends check50.
Valgrind(n) ==
    /\ pc = "declare"
    /\ IF test_cases = <<>>
       THEN /\ raised' = Other("IndexError")
            /\ pc' = "aborted" /\ exitCode' = 1
            /\ UNCHANGED audited
       ELSE IF test_cases[Len(test_cases)] = n
       THEN /\ raised' = Other("InternalError")
            /\ pc' = "aborted" /\ exitCode' = 1
            /\ UNCHANGED audited
       ELSE /\ audited' = [audited EXCEPT ![n] = TRUE]
            /\ UNCHANGED <<pc, raised, exitCode>>
    /\ UNCHANGED <<test_cases, dependency, installed, use_valgrind, xml, rawVars, environ>>
    /\ UNCHANGED <<test_results, cur, result, rationale, helpers, dir, dirs,
                   results, failures, bodyRuns, killLog>>
    /\ UNCHANGED <<sessVars, outcome, torn, reported>>

\* main: one Checks instance per entry of config.test_cases, then suite.run
CreateSuite ==
    /\ pc = "declare"
    /\ pc' = "suite"
    /\ cur' = 1
    /\ result' = [i \in 1..N |-> FAIL]
    /\ rationale' = [i \in 1..N |-> NoRationale]
    /\ helpers' = [i \in 1..N |-> "None"]
    /\ use_valgrind' = [i \in 1..N |-> FALSE]
    /\ dir' = [i \in 1..N |-> NoDep]
    /\ bodyRuns' = [i \in 1..N |-> 0]
    /\ UNCHANGED <<declVars, rawVars, environ, xml, test_results, dirs, results, failures, exitCode, killLog>>
    /\ UNCHANGED <<sessVars, unitVars>>

----------------------------------------------------------------------------
(* How a test method ends *)

\* a wrapper that gives every caught Error the verdict FAIL
CaughtAsFail(e) ==
    /\ rationale' = [rationale EXCEPT ![cur] = e.rationale]
    /\ helpers' = [helpers EXCEPT ![cur] = e.helpers]
    /\ result' = [result EXCEPT ![cur] = FAIL]
    /\ test_results' = [test_results EXCEPT ![name] = FAIL]
    /\ use_valgrind' = [use_valgrind EXCEPT ![cur] = FALSE]
    /\ outcome' = "success"
    /\ pc' = "ended"

\* wrapper, `except Error as e` and the assignment after it: the check's verdict
Caught(e) ==
    /\ rationale' = [rationale EXCEPT ![cur] = e.rationale]
    /\ helpers' = [helpers EXCEPT ![cur] = e.helpers]
    /\ result' = [result EXCEPT ![cur] = e.result]
    /\ test_results' = [test_results EXCEPT ![name] = e.result]
    /\ use_valgrind' = [use_valgrind EXCEPT ![cur] = FALSE]
    /\ outcome' = "success"
    /\ pc' = "ended"

\* an exception that is no Error leaves the wrapper; unittest sorts it into a
\* failure (the test case's failureException) or an error (any other)
Uncaught(e) ==
    /\ outcome' = IF e.exc = "AssertionError" THEN "failure" ELSE "error"
    /\ use_valgrind' = [use_valgrind EXCEPT ![cur] = FALSE]
    /\ pc' = "ended"
    /\ UNCHANGED verdictVars

\* the test method raises e
Raise(e) ==
    /\ raised' = e
    /\ IF e.exc = "Error" THEN Caught(e) ELSE Uncaught(e)

\* wrapper, `else: result = Checks.PASS` and the assignment after it
Passed ==
    /\ result' = [result EXCEPT ![cur] = PASS]
    /\ test_results' = [test_results EXCEPT ![name] = PASS]
    /\ use_valgrind' = [use_valgrind EXCEPT ![cur] = FALSE]
    /\ outcome' = "success"
    /\ pc' = "ended"
    /\ UNCHANGED <<rationale, helpers, raised>>

----------------------------------------------------------------------------
(* The wrapper of `check`, up to the call of the check body *)

\* a gate that lets a check through when its dependency has no verdict yet
DependencyFailedIfRecorded ==
    dependency[name] # NoDep /\ test_results[dependency[name]] \in {FAIL, SKIP}

\* a gate that stops a check only when its dependency failed
DependencyFailedOnly == dependency[name] # NoDep /\ test_results[dependency[name]] = FAIL

\* `if dependency and config.test_results.get(dependency) != Checks.PASS`
DependencyFailed == dependency[name] # NoDep /\ test_results[dependency[name]] # PASS
src_dir == IF dependency[name] # NoDep THEN dependency[name] ELSE "_"

\* the dependency did not pass: SKIP and return
SkipCheck ==
    /\ pc = "suite" /\ cur <= N
    /\ DependencyFailed
    /\ result' = [result EXCEPT ![cur] = SKIP]
    /\ test_results' = [test_results EXCEPT ![name] = SKIP]
    /\ rationale' = [rationale EXCEPT ![cur] =
                        Text("can't check until a frown turns upside down", <<>>)]
    /\ outcome' = "success"
    /\ pc' = "ended"
    /\ UNCHANGED <<declVars, rawVars, environ, xml, cur, helpers, use_valgrind, dir, dirs, results,
                   failures, raised, torn, reported, exitCode, bodyRuns, killLog>>
    /\ UNCHANGED sessVars

\* shutil.copytree(src_dir, dst_dir) needs src_dir to exist and dst_dir not to
CopyTreeOk == src_dir \in dirs /\ name \notin dirs

\* a valgrind.wrapper that does not look for the tool
ValgrindAssumed == FALSE

\* valgrind.wrapper, `if not which("valgrind")`, for a check decorated with it
ValgrindMissing == audited[name] /\ ~installed

\* the check's directory is made and the body is entered, after
\* valgrind.wrapper has set _valgrind if the check is decorated with it
EnterCheck ==
    /\ pc = "suite" /\ cur <= N
    /\ ~DependencyFailed
    /\ CopyTreeOk
    /\ ~ValgrindMissing
    /\ dir' = [dir EXCEPT ![cur] = name]
    /\ dirs' = dirs \cup {name}
    /\ use_valgrind' = [use_valgrind EXCEPT ![cur] = audited[name]]
    /\ bodyRuns' = [bodyRuns EXCEPT ![cur] = @ + 1]
    /\ pc' = "body"
    /\ UNCHANGED <<declVars, rawVars, environ, xml, cur, results, failures, exitCode, killLog>>
    /\ UNCHANGED <<verdictVars, sessVars, unitVars>>

\* the check's directory is made; valgrind.wrapper raises Error(result=SKIP)
\* before the body, and the wrapper of check catches it
NoValgrind ==
    /\ pc = "suite" /\ cur <= N
    /\ ~DependencyFailed
    /\ CopyTreeOk
    /\ ValgrindMissing
    /\ dir' = [dir EXCEPT ![cur] = name]
    /\ dirs' = dirs \cup {name}
    /\ Raise(Error(Text("valgrind not installed", <<>>), "None", SKIP))
    /\ UNCHANGED <<declVars, rawVars, environ, xml, cur, results, failures, torn, reported,
                   exitCode, bodyRuns, killLog>>
    /\ UNCHANGED sessVars

\* copytree raises (the directory exists already): no Error, so it is not caught
CopyTreeFails ==
    /\ pc = "suite" /\ cur <= N
    /\ ~DependencyFailed
    /\ ~CopyTreeOk
    /\ dir' = [dir EXCEPT ![cur] = name]
    /\ Raise(Other("OSError"))
    /\ UNCHANGED <<declVars, rawVars, environ, xml, cur, dirs, results, failures, torn, reported,
                   exitCode, bodyRuns, killLog>>
    /\ UNCHANGED sessVars

----------------------------------------------------------------------------
(* The check body: its own returns and raises *)

InBody == pc = "body" /\ op = NoOp

frameBody == <<declVars, rawVars, environ, xml, cur, dir, dirs, results, failures, torn, reported,
               exitCode, bodyRuns, killLog>>

BodyReturns ==
    /\ InBody
    /\ ~use_valgrind[cur]
    /\ Passed
    /\ UNCHANGED frameBody
    /\ UNCHANGED sessVars

\* raise Error(..., result=res) written in the check: FAIL is the default, and
\* Error takes any of the three verdicts
BodyRaisesError(res) ==
    /\ InBody
    /\ Raise(Error(Text("check-specific rationale", <<>>), "hint", res))
    /\ UNCHANGED frameBody
    /\ UNCHANGED sessVars

\* any other exception raised in the check
BodyRaisesOther(exc) ==
    /\ InBody
    /\ Raise(Other(exc))
    /\ UNCHANGED frameBody
    /\ UNCHANGED sessVars

----------------------------------------------------------------------------
(* Checks._check_valgrind *)

MaxReport == 2

\* a stack frame of the report has an object, in the check's directory ("dir")
\* or elsewhere, and may name a file and a line
InDir(frame) == frame.obj = "dir"

\* the error entries valgrind may report
Entries == {[kind |-> "Leak_DefinitelyLost", what |-> "None", xwhat |-> "lost",
             stack |-> <<[obj |-> "lib", file |-> "l.c", line |-> 2],
                         [obj |-> "dir", file |-> "f.c", line |-> 1]>>],
            [kind |-> "Leak_DefinitelyLost", what |-> "None", xwhat |-> "lost",
             stack |-> <<[obj |-> "dir", file |-> "f.c", line |-> 1]>>],
            [kind |-> "InvalidRead", what |-> "read", xwhat |-> "None",
             stack |-> <<[obj |-> "dir", file |-> "None", line |-> 1],
                         [obj |-> "dir", file |-> "f.c", line |-> 1]>>],
            [kind |-> "InvalidRead", what |-> "read", xwhat |-> "None",
             stack |-> <<[obj |-> "lib", file |-> "l.c", line |-> 2]>>]}

RECURSIVE SeqsUpTo(_, _)
SeqsUpTo(S, n) ==
    IF n = 0 THEN {<<>>}
    ELSE SeqsUpTo(S, n - 1) \cup {Append(r, e) : r \in SeqsUpTo(S, n - 1), e \in S}
Reports == SeqsUpTo(Entries, MaxReport)

\* kind.startswith("Leak_")
IsLeak(kind) == kind = "Leak_DefinitelyLost"
\* valgrind's message of the error
What(error) == IF IsLeak(error.kind) THEN error.xwhat ELSE error.what

RECURSIVE Location(_)
\* the first frame in the check's directory ends the search; it gives the
\* location if it names both a file and a line
Location(stack) ==
    IF stack = <<>> THEN <<>>
    ELSE IF InDir(Head(stack))
         THEN (IF Head(stack).file # "None" /\ Head(stack).line # None
               THEN <<Head(stack).file, Head(stack).line>> ELSE <<>>)
         ELSE Location(Tail(stack))

\* the message reported for an error
Msg(error) == Text(What(error), Location(error.stack))

\* a report in which every entry is reported
RECURSIVE FindingsRepeated(_, _)
FindingsRepeated(report, seen) ==
    IF report = <<>> THEN <<>>
    ELSE <<Msg(Head(report))>> \o FindingsRepeated(Tail(report), seen)

RECURSIVE Findings(_, _)
\* the loop over the errors: a message not yet in `reported` is logged and added
Findings(report, seen) ==
    IF report = <<>> THEN <<>>
    ELSE LET msg == Msg(Head(report))
         IN  IF msg \in seen THEN Findings(Tail(report), seen)
             ELSE <<msg>> \o Findings(Tail(report), seen \cup {msg})

ValgrindFailed ==
    Error(Text("valgrind tests failed; rerun with --log for more information.", <<>>),
          "None", FAIL)

\* the body of a check decorated with valgrind returns: _check_valgrind reads
\* the report (there is none if nothing ran under valgrind), logs the messages
\* and raises if there are any; `finally` resets _valgrind
AuditedBodyReturns(report) ==
    /\ InBody
    /\ use_valgrind[cur]
    /\ IF \A k \in DOMAIN procs : ~procs[k].valgrind
       THEN /\ Raise(Other("IOError"))
            /\ UNCHANGED <<log, xml>>
       ELSE /\ xml' = report
            /\ log' = log \o <<Text("checking for valgrind errors", <<>>)>>
                           \o Findings(report, {})
            /\ IF Findings(report, {}) # <<>>
               THEN Raise(ValgrindFailed)
               ELSE Passed
    /\ UNCHANGED <<declVars, rawVars, environ, cur, dir, dirs, results, failures, torn, reported,
                   exitCode, bodyRuns, killLog>>
    /\ UNCHANGED <<children, procs, op, expired>>

----------------------------------------------------------------------------
(* Checks.spawn and the child process *)

\* a spawn that never runs the command under valgrind
UnderValgrindNever == FALSE

\* Checks.spawn, `if self._valgrind`: the command is run under valgrind
UnderValgrind == use_valgrind[cur]

\* a session: the command (valgrind), the process (todo, pipe, alive, eof, code), the pexpect object
\* (buffer, closed, pstatus) and the Child around it (output, exitstatus)
NewChild(prog, env) ==
    [valgrind |-> UnderValgrind, given |-> env, env |-> environ \cup env,
     todo |-> prog, pipe |-> <<>>, alive |-> TRUE, eof |-> FALSE, code |-> None,
     buffer |-> <<>>, closed |-> FALSE, pstatus |-> None, sent |-> <<>>,
     output |-> <<>>, exitstatus |-> None]

\* Child.kill: pexpect's close(force=True)
Kill(c) ==
    IF c.closed THEN c
    ELSE [c EXCEPT !.closed = TRUE, !.alive = FALSE, !.eof = TRUE,
                   !.todo = <<>>, !.pipe = <<>>,
                   !.pstatus = IF c.alive THEN None ELSE c.code]

frameOp == <<declVars, rawVars, environ, xml, cur, dir, dirs, results, failures, torn, reported,
             exitCode, bodyRuns, killLog>>

\* spawn(cmd, env): os.environ.update(env) adds env to the environment of
\* check50 and returns None, so pexpect gets env=None and the process inherits
\* os.environ as it is then
Spawn(prog, env) ==
    /\ InBody
    /\ Len(procs) < MaxChildren
    /\ Len(log) < MaxLog
    /\ log' = Append(log, Text(IF UnderValgrind THEN "running valgrind"
                                ELSE "running", prog))
    /\ environ' = environ \cup env
    /\ procs' = Append(procs, NewChild(prog, env))
    /\ children' = Append(children, Len(procs) + 1)
    /\ UNCHANGED <<pc, op, expired>>
    /\ UNCHANGED <<declVars, rawVars, xml, cur, dir, dirs, results, failures, torn,
                   reported, exitCode, bodyRuns, killLog>>
    /\ UNCHANGED <<caseVars, unitVars>>

frameChild == <<pc, log, children, op, expired>>

\* The program sees a process only while an operation on its session is in
\* progress, and when tearDown kills it: the steps of a process are taken then.
Watched(k) == pc = "body" /\ op # NoOp /\ op.k = k

\* the process writes its next character; the terminal turns LF into CR LF
ChildWrites(k) ==
    /\ Watched(k)
    /\ procs[k].alive /\ ~procs[k].eof /\ procs[k].todo # <<>>
    /\ procs' = [procs EXCEPT ![k].pipe = @ \o ToTerminal(<<Head(procs[k].todo)>>),
                              ![k].todo = Tail(@)]
    /\ UNCHANGED <<frameChild, frameOp, caseVars, unitVars>>

\* the process closes its output and keeps running
ChildCloses(k) ==
    /\ Watched(k)
    /\ procs[k].alive /\ ~procs[k].eof
    /\ procs' = [procs EXCEPT ![k].eof = TRUE, ![k].todo = <<>>]
    /\ UNCHANGED <<frameChild, frameOp, caseVars, unitVars>>

\* the process exits
ChildExits(k, code) ==
    /\ Watched(k)
    /\ procs[k].alive
    /\ procs' = [procs EXCEPT ![k].alive = FALSE, ![k].eof = TRUE,
                              ![k].todo = <<>>, ![k].code = code]
    /\ UNCHANGED <<frameChild, frameOp, caseVars, unitVars>>

\* the deadline of the operation in progress passes
Tick ==
    /\ pc = "body" /\ op # NoOp
    /\ ~expired
    /\ expired' = TRUE
    /\ UNCHANGED <<pc, log, children, procs, op>>
    /\ UNCHANGED <<frameOp, caseVars, unitVars>>

----------------------------------------------------------------------------
(* pexpect's expect and expect_exact *)

PROMPT == <<".", "+">>

\* a matcher that reads every expectation as a regular expression
MatchAtPattern(buf, i, pat, literal) ==
    /\ i + Len(pat) - 1 <= Len(buf)
    /\ \A j \in 1..Len(pat) : pat[j] = buf[i + j - 1] \/ pat[j] = "."

\* the pattern (a regular expression unless literal) matches buf from position i
MatchAt(buf, i, pat, literal) ==
    /\ i + Len(pat) - 1 <= Len(buf)
    /\ \A j \in 1..Len(pat) : pat[j] = buf[i + j - 1] \/ (~literal /\ pat[j] = ".")

Matches(buf, pat, literal) ==
    IF pat = EOF THEN {}
    ELSE IF pat = PROMPT /\ ~literal THEN (IF buf = <<>> THEN {} ELSE {1})
    ELSE {i \in 1..Len(buf) : MatchAt(buf, i, pat, literal)}

Min(S) == CHOOSE x \in S : \A y \in S : x <= y

\* the end of the match that starts at i
MatchEnd(buf, i, pat, literal) ==
    IF pat = PROMPT /\ ~literal THEN Len(buf) ELSE i + Len(pat) - 1

\* one round of expect on session c: what it finds, and the buffer it leaves
Expect(c, pat, literal) ==
    LET m == Matches(c.buffer, pat, literal)
    IN  IF m # {}
        THEN [res |-> "match", before |-> SubSeq(c.buffer, 1, Min(m) - 1),
              buffer |-> SubSeq(c.buffer, MatchEnd(c.buffer, Min(m), pat, literal) + 1,
                                Len(c.buffer)),
              pipe |-> c.pipe]
        ELSE IF c.closed
        THEN [res |-> "ValueError", before |-> <<>>, buffer |-> c.buffer, pipe |-> c.pipe]
        ELSE IF expired
        THEN [res |-> "TIMEOUT", before |-> c.buffer, buffer |-> c.buffer, pipe |-> c.pipe]
        ELSE IF c.pipe # <<>>
        THEN [res |-> "read", before |-> <<>>, buffer |-> c.buffer \o c.pipe, pipe |-> <<>>]
        ELSE IF c.eof
        THEN [res |-> "EOF", before |-> c.buffer, buffer |-> <<>>, pipe |-> <<>>]
        ELSE [res |-> "block", before |-> <<>>, buffer |-> c.buffer, pipe |-> c.pipe]

AfterExpect(c, e) == [c EXCEPT !.buffer = e.buffer, !.pipe = e.pipe]

----------------------------------------------------------------------------
(* Child.stdout *)

\* stdout(output): the expectation is logged and expect is called
Stdout(k, output, literal) ==
    /\ InBody
    /\ Len(log) < MaxLog
    /\ log' = Append(log, Text("checking for output", output))
    /\ op' = [name |-> "stdout", k |-> k,
              str_output |-> IF output = EOF THEN <<"E", "O", "F">> ELSE output,
              output |-> IF output = EOF THEN EOF ELSE ToTerminal(output),
              literal |-> literal]
    /\ expired' = FALSE
    /\ UNCHANGED <<pc, children, procs>>
    /\ UNCHANGED <<frameOp, caseVars, unitVars>>

\* one handler for both exceptions of expect
StdoutFailureTimedOut(res, str_output, before) ==
    Error(Text("timed out while waiting for", Raw(str_output)), "None", FAIL)

\* `except EOF` and `except TIMEOUT` around expect: the diagnostic of each
StdoutFailure(res, str_output, before) ==
    IF res = "TIMEOUT"
    THEN Error(Text("timed out while waiting for", Raw(str_output)), "None", FAIL)
    ELSE Error(Mismatch(str_output, FromTerminal(before)), "None", FAIL)

\* a stdout that does not look at the output that came before the end
StillGotOutputIgnored(output, before) == FALSE

\* `if output == EOF and self.child.before`
StillGotOutput(output, before) == output = EOF /\ before # <<>>

StdoutStep ==
    /\ pc = "body" /\ op.name = "stdout"
    /\ LET c == procs[op.k]
           e == Expect(c, op.output, op.literal)
       IN  /\ e.res # "block"
           /\ procs' = [procs EXCEPT ![op.k] = AfterExpect(c, e)]
           /\ op' = IF e.res = "read" THEN op ELSE NoOp
           /\ CASE e.res = "read" ->
                     UNCHANGED <<pc, caseVars, outcome, raised>>
                [] e.res = "match" ->
                     UNCHANGED <<pc, caseVars, outcome, raised>>
                [] e.res = "TIMEOUT" \/ (e.res = "EOF" /\ op.output # EOF) ->
                     Raise(StdoutFailure(e.res, op.str_output, e.before))
                [] e.res = "EOF" /\ op.output = EOF ->
                     IF StillGotOutput(op.output, e.before)
                     THEN Raise(Error(Mismatch(EOF, FromTerminal(e.before)), "None", FAIL))
                     ELSE UNCHANGED <<pc, caseVars, outcome, raised>>
                [] e.res = "ValueError" ->
                     Raise(Other("ValueError"))
    /\ UNCHANGED <<log, children, expired>>
    /\ UNCHANGED frameOp

----------------------------------------------------------------------------
(* Child.stdin and Child.reject *)

\* what a check may send
StdinArgs == {[line |-> <<"x">>, prompt |-> TRUE],
              [line |-> <<"x">>, prompt |-> FALSE],
              [line |-> EOF, prompt |-> TRUE]}

\* sendline and sendeof write to the terminal; the write fails (OSError) on a
\* closed session and may fail once the process is gone
CanSend(c, ok) == (c.alive => ok) /\ (c.closed => ~ok)
\* a stdin that writes the text without the newline (send for sendline)
SendNoNewline(c, line) == [c EXCEPT !.sent = Append(@, line)]

\* sendline(line) writes the line and a newline, sendeof() signals end of input
Send(c, line) ==
    [c EXCEPT !.sent = Append(@, IF line = EOF THEN EOF ELSE line \o <<LF>>)]

Stdin(k, line, prompt) ==
    /\ InBody
    /\ Len(log) < MaxLog
    /\ log' = Append(log, Text(IF line = EOF THEN "sending EOF" ELSE "sending input", line))
    /\ expired' = FALSE
    /\ IF prompt
       THEN /\ op' = [name |-> "stdin", k |-> k, line |-> line]
            /\ UNCHANGED <<pc, procs, caseVars, outcome, raised>>
       ELSE /\ op' = NoOp
            /\ \E ok \in BOOLEAN :
                  /\ CanSend(procs[k], ok)
                  /\ IF ok
                     THEN /\ procs' = [procs EXCEPT ![k] = Send(@, line)]
                          /\ UNCHANGED <<pc, caseVars, outcome, raised>>
                     ELSE /\ Raise(Other("OSError"))
                          /\ UNCHANGED procs
    /\ UNCHANGED children
    /\ UNCHANGED frameOp

StdinStep ==
    /\ pc = "body" /\ op.name = "stdin"
    /\ LET c == procs[op.k]
           e == Expect(c, PROMPT, FALSE)
       IN  /\ e.res # "block"
           /\ op' = IF e.res = "read" THEN op ELSE NoOp
           /\ CASE e.res = "read" ->
                     /\ procs' = [procs EXCEPT ![op.k] = AfterExpect(c, e)]
                     /\ UNCHANGED <<pc, caseVars, outcome, raised>>
                [] e.res = "match" ->
                     \E ok \in BOOLEAN :
                        /\ CanSend(c, ok)
                        /\ IF ok
                           THEN /\ procs' = [procs EXCEPT
                                               ![op.k] = Send(AfterExpect(c, e), op.line)]
                                /\ UNCHANGED <<pc, caseVars, outcome, raised>>
                           ELSE /\ procs' = [procs EXCEPT ![op.k] = AfterExpect(c, e)]
                                /\ Raise(Other("OSError"))
                [] e.res = "TIMEOUT" ->
                     /\ procs' = [procs EXCEPT ![op.k] = AfterExpect(c, e)]
                     /\ Raise(Error(Text("expected prompt for input, found none", <<>>),
                                     "None", FAIL))
                [] e.res \in {"EOF", "ValueError"} ->
                     /\ procs' = [procs EXCEPT ![op.k] = AfterExpect(c, e)]
                     /\ Raise(Other(e.res))
    /\ UNCHANGED <<log, children, expired>>
    /\ UNCHANGED frameOp

Reject(k) ==
    /\ InBody
    /\ Len(log) < MaxLog
    /\ log' = Append(log, Text("checking that input was rejected", <<>>))
    /\ op' = [name |-> "reject", k |-> k]
    /\ expired' = FALSE
    /\ UNCHANGED <<pc, children, procs>>
    /\ UNCHANGED <<frameOp, caseVars, unitVars>>

RejectStep ==
    /\ pc = "body" /\ op.name = "reject"
    /\ LET c == procs[op.k]
           e == Expect(c, PROMPT, FALSE)
       IN  /\ e.res # "block"
           /\ op' = IF e.res = "read" THEN op ELSE NoOp
           /\ CASE e.res = "read" ->
                     /\ procs' = [procs EXCEPT ![op.k] = AfterExpect(c, e)]
                     /\ UNCHANGED <<pc, caseVars, outcome, raised>>
                [] e.res = "match" ->
                     \E ok \in BOOLEAN :
                        /\ CanSend(c, ok)
                        /\ IF ok
                           THEN /\ procs' = [procs EXCEPT
                                               ![op.k] = Send(AfterExpect(c, e), <<>>)]
                                /\ UNCHANGED <<pc, caseVars, outcome, raised>>
                           ELSE \* except OSError: self.test.fail()
                                /\ procs' = [procs EXCEPT ![op.k] = AfterExpect(c, e)]
                                /\ Raise(Other("AssertionError"))
                [] e.res = "TIMEOUT" ->
                     /\ procs' = [procs EXCEPT ![op.k] = AfterExpect(c, e)]
                     /\ Raise(Error(Text("timed out while waiting for input to be rejected",
                                          <<>>), "None", FAIL))
                [] e.res \in {"EOF", "ValueError"} ->
                     /\ procs' = [procs EXCEPT ![op.k] = AfterExpect(c, e)]
                     /\ Raise(Other(e.res))
    /\ UNCHANGED <<log, children, expired>>
    /\ UNCHANGED frameOp

----------------------------------------------------------------------------
(* Child.wait and Child.exit *)

\* wait(), stdout() with no expectation and exit() with no code (code = None), and
\* exit(code): all start with the polling loop of wait
Wait(k, code) ==
    /\ InBody
    /\ op' = [name |-> "wait", k |-> k, code |-> code]
    /\ expired' = FALSE
    /\ UNCHANGED <<pc, log, children, procs>>
    /\ UNCHANGED <<frameOp, caseVars, unitVars>>

\* a wait that does not take the exit status from pexpect
FinishedNoStatus(c) ==
    [Kill(c) EXCEPT !.output = LStrip(FromTerminal(c.output \o c.pipe))]

\* the end of wait: the rest of the pipe is read, the output is joined, the
\* session is killed and the exit status is taken from pexpect
Finished(c) ==
    [Kill(c) EXCEPT !.output = LStrip(FromTerminal(c.output \o c.pipe)),
                    !.exitstatus = Kill(c).pstatus]

\* a loop of wait without deadline (`while True`)
PollForever(c) ==
    IF ~c.alive \/ (c.pipe = <<>> /\ c.eof)
    THEN (IF c.closed THEN "ValueError" ELSE "done")
    ELSE IF c.pipe # <<>> THEN "read"
    ELSE "block"

\* one round of the polling loop of wait: the deadline, isalive, read_nonblocking
Poll(c) ==
    IF expired THEN "TIMEOUT"
    ELSE IF ~c.alive \/ (c.pipe = <<>> /\ c.eof)
         THEN (IF c.closed THEN "ValueError" ELSE "done")
    ELSE IF c.pipe # <<>> THEN "read"
    ELSE "block"

WaitStep ==
    /\ pc = "body" /\ op.name = "wait"
    /\ LET c == procs[op.k]
           res == Poll(c)
       IN  /\ res # "block"
           /\ op' = IF res = "read" THEN op ELSE NoOp
           /\ CASE res = "read" ->
                     /\ procs' = [procs EXCEPT ![op.k].output = @ \o c.pipe,
                                               ![op.k].pipe = <<>>]
                     /\ UNCHANGED <<pc, log, caseVars, outcome, raised>>
                [] res = "TIMEOUT" ->
                     /\ Raise(Error(Text("timed out while waiting for program to exit",
                                          <<>>), "None", FAIL))
                     /\ UNCHANGED <<procs, log>>
                [] res = "ValueError" ->
                     /\ Raise(Other("ValueError"))
                     /\ UNCHANGED <<procs, log>>
                [] res = "done" /\ op.code = None ->
                     /\ procs' = [procs EXCEPT ![op.k] = Finished(c)]
                     /\ UNCHANGED <<pc, log, caseVars, outcome, raised>>
                [] res = "done" /\ op.code # None ->
                     /\ procs' = [procs EXCEPT ![op.k] = Finished(c)]
                     /\ log' = Append(log, Text("checking that program exited with status",
                                                <<op.code>>))
                     /\ IF Finished(c).exitstatus # op.code
                        THEN Raise(Error(Text("expected exit code",
                                               <<op.code, Finished(c).exitstatus>>),
                                          "None", FAIL))
                        ELSE UNCHANGED <<pc, caseVars, outcome, raised>>
    /\ UNCHANGED <<children, expired>>
    /\ UNCHANGED frameOp

----------------------------------------------------------------------------
(* unittest.TestCase.run after the test method: tearDown and the TestResult *)

RECURSIVE KillAll(_, _)
\* Checks.tearDown: while self.children: self.children.pop().kill()
KillAll(ps, ch) ==
    IF ch = <<>> THEN ps
    ELSE LET k == ch[Len(ch)]
         IN  KillAll([ps EXCEPT ![k] = Kill(ps[k])], SubSeq(ch, 1, Len(ch) - 1))

TearDown ==
    /\ pc = "ended" /\ ~torn
    /\ procs' = KillAll(procs, children)
    /\ killLog' = Reverse(children)
    /\ children' = <<>>
    /\ torn' = TRUE
    /\ UNCHANGED <<pc, declVars, rawVars, environ, xml, cur, dir, dirs, results, failures, outcome, raised,
                   reported, exitCode, bodyRuns, log, op, expired>>
    /\ UNCHANGED caseVars

Record(status, why) ==
    [test |-> cur, status |-> status, rationale |-> why, helpers |-> helpers[cur]]

\* TestResult.addSuccess: the test method returned; called after tearDown
AddSuccess ==
    /\ pc = "ended" /\ torn /\ ~reported
    /\ outcome = "success"
    /\ results' = Append(results, Record(result[cur], rationale[cur]))
    /\ reported' = TRUE
    /\ UNCHANGED <<pc, declVars, rawVars, environ, xml, cur, dir, dirs, failures, outcome, raised, torn,
                   exitCode, bodyRuns, killLog>>
    /\ UNCHANGED <<caseVars, sessVars>>

\* unittest.TestResult.addFailure, which TestResult does not override; unittest
\* calls it before or after tearDown, depending on its version
AddFailure ==
    /\ pc = "ended" /\ ~reported
    /\ outcome = "failure"
    /\ failures' = Append(failures, cur)
    /\ reported' = TRUE
    /\ UNCHANGED <<pc, declVars, rawVars, environ, xml, cur, dir, dirs, results, outcome, raised, torn,
                   exitCode, bodyRuns, killLog>>
    /\ UNCHANGED <<caseVars, sessVars>>

\* TestResult.addError: record FAIL and sys.exit(1); unittest calls it before or
\* after tearDown, depending on its version
AddError ==
    /\ pc = "ended" /\ ~reported
    /\ outcome = "error"
    /\ results' = Append(results, Record(FAIL, Exception(raised.exc)))
    /\ reported' = TRUE
    /\ exitCode' = 1
    /\ pc' = "aborted"
    /\ UNCHANGED <<declVars, rawVars, environ, xml, cur, dir, dirs, failures, outcome, raised, torn,
                   bodyRuns, killLog>>
    /\ UNCHANGED <<caseVars, sessVars>>

IsAlive(c) == c.alive
RECURSIVE Survivors(_)
Survivors(ps) ==
    IF ps = <<>> THEN <<>>
    ELSE (IF IsAlive(Head(ps)) THEN <<Head(ps)>> ELSE <<>>) \o Survivors(Tail(ps))

\* a runner that removes the directory of each check when the check is over
NextCheckRemovesDir ==
    /\ pc = "ended" /\ torn /\ reported
    /\ cur' = cur + 1
    /\ pc' = "suite"
    /\ outcome' = "none"
    /\ raised' = NoExc
    /\ torn' = FALSE
    /\ reported' = FALSE
    /\ log' = <<>>
    /\ procs' = Survivors(procs)
    /\ killLog' = <<>>
    /\ xml' = <<>>
    /\ dirs' = dirs \ {name}
    /\ UNCHANGED <<declVars, rawVars, environ, dir, results, failures, exitCode, bodyRuns,
                   children, op, expired>>
    /\ UNCHANGED caseVars

\* TestSuite.run: on to the next test case
NextCheck ==
    /\ pc = "ended" /\ torn /\ reported
    /\ cur' = cur + 1
    /\ pc' = "suite"
    /\ outcome' = "none"
    /\ raised' = NoExc
    /\ torn' = FALSE
    /\ reported' = FALSE
    /\ log' = <<>>
    /\ procs' = Survivors(procs)
    /\ killLog' = <<>>
    /\ xml' = <<>>
    /\ UNCHANGED <<declVars, rawVars, environ, dir, dirs, results, failures, exitCode, bodyRuns,
                   children, op, expired>>
    /\ UNCHANGED caseVars

\* main after suite.run: cleanup() removes config.tempdir; the results are printed
Finish ==
    /\ pc = "suite" /\ cur > N
    /\ dirs' = {}
    /\ exitCode' = 0
    /\ pc' = "done"
    /\ UNCHANGED <<declVars, rawVars, environ, xml, cur, dir, results, failures, bodyRuns, killLog>>
    /\ UNCHANGED <<caseVars, sessVars, unitVars>>

----------------------------------------------------------------------------
(* Specifications *)

\* the decorators run while the checks module is imported; then main builds the suite
Declaration ==
    \/ \E n \in Names, dep \in Names \cup {NoDep} : Declare(n, dep)
    \/ CreateSuite

\* unittest running the test cases, one after the other
Runner ==
    \/ SkipCheck
    \/ EnterCheck
    \/ TearDown
    \/ AddSuccess
    \/ AddFailure
    \/ AddError
    \/ NextCheck
    \/ Finish

\* the ways a check body ends by itself
Ends ==
    \/ BodyReturns
    \/ \E res \in {PASS, FAIL, SKIP} : BodyRaisesError(res)
    \/ \E exc \in {"AssertionError", "ValueError"} : BodyRaisesOther(exc)

\* a check body that talks to its sessions and waits for them
Talk ==
    \/ \E k \in DOMAIN procs : ChildWrites(k)
    \/ \E k \in DOMAIN procs : ChildCloses(k)
    \/ \E k \in DOMAIN procs, code \in ExitCodes : ChildExits(k, code)
    \/ Tick
    \/ \E k \in DOMAIN procs, a \in StdoutArgs : Stdout(k, a.output, a.literal)
    \/ StdoutStep
    \/ \E k \in DOMAIN procs, a \in StdinArgs : Stdin(k, a.line, a.prompt)
    \/ StdinStep
    \/ \E k \in DOMAIN procs : Reject(k)
    \/ RejectStep
    \/ \E k \in DOMAIN procs, code \in ExitCodes \cup {None} : Wait(k, code)
    \/ WaitStep

\* The whole program, from the import of the checks to its exit, for checks that
\* spawn sessions and leave them alone.
Next ==
    \/ Declaration
    \/ Runner
    \/ CopyTreeFails
    \/ Ends
    \/ Spawn(Silent, NoEnv)

Spec == Init /\ [][Next]_vars

\* The suite of SessionSpec: check A, and check B, which depends on a check that
\* is not declared
InitSession ==
    /\ pc = "suite"
    /\ test_cases = <<"A", "B">>
    /\ dependency = [n \in Names |-> IF n = "B" THEN "C" ELSE NoDep]
    /\ audited = [n \in Names |-> FALSE]
    /\ installed = TRUE
    /\ use_valgrind = [i \in 1..N |-> FALSE]
    /\ xml = <<>>
    /\ test_results = [n \in Names |-> UNSET]
    /\ cur = 1
    /\ result = [i \in 1..N |-> FAIL]
    /\ rationale = [i \in 1..N |-> NoRationale]
    /\ helpers = [i \in 1..N |-> "None"]
    /\ dir = [i \in 1..N |-> NoDep]
    /\ bodyRuns = [i \in 1..N |-> 0]
    /\ log = <<>>
    /\ children = <<>>
    /\ procs = <<>>
    /\ dirs = {"_"}
    /\ results = <<>>
    /\ failures = <<>>
    /\ outcome = "none"
    /\ raised = NoExc
    /\ torn = FALSE
    /\ reported = FALSE
    /\ exitCode = None
    /\ op = NoOp
    /\ expired = FALSE
    /\ killLog = <<>>
    /\ environ = Inherited
    /\ raw_s = <<>>
    /\ raw_out = <<>>

\* The run of a declared suite whose checks talk to the sessions they spawn.
NextSession ==
    \/ Runner
    \/ Ends
    \/ Talk
    \/ \E prog \in Programs : Spawn(prog, NoEnv)

SessionSpec == InitSession /\ [][NextSession]_vars

\* The suite of AuditSpec: check A, decorated with valgrind, and check B, which
\* depends on A
InitAudit ==
    /\ pc = "suite"
    /\ test_cases = <<"A", "B">>
    /\ dependency = [n \in Names |-> IF n = "B" THEN "A" ELSE NoDep]
    /\ audited = [n \in Names |-> n = "A"]
    /\ installed \in BOOLEAN
    /\ use_valgrind = [i \in 1..N |-> FALSE]
    /\ xml = <<>>
    /\ test_results = [n \in Names |-> UNSET]
    /\ cur = 1
    /\ result = [i \in 1..N |-> FAIL]
    /\ rationale = [i \in 1..N |-> NoRationale]
    /\ helpers = [i \in 1..N |-> "None"]
    /\ dir = [i \in 1..N |-> NoDep]
    /\ bodyRuns = [i \in 1..N |-> 0]
    /\ log = <<>>
    /\ children = <<>>
    /\ procs = <<>>
    /\ dirs = {"_"}
    /\ results = <<>>
    /\ failures = <<>>
    /\ outcome = "none"
    /\ raised = NoExc
    /\ torn = FALSE
    /\ reported = FALSE
    /\ exitCode = None
    /\ op = NoOp
    /\ expired = FALSE
    /\ killLog = <<>>
    /\ environ = Inherited
    /\ raw_s = <<>>
    /\ raw_out = <<>>

\* The run of a declared suite with a check under valgrind.
NextAudit ==
    \/ Runner
    \/ NoValgrind
    \/ Ends
    \/ \E report \in Reports : AuditedBodyReturns(report)
    \/ Spawn(Silent, NoEnv)

AuditSpec == InitAudit /\ [][NextAudit]_vars

\* The texts handed to the formatter: runs of "a" of up to MaxText characters
\* that end in up to two characters, line ends among them
MaxText == 16
RECURSIVE Pad(_)
Pad(n) == IF n = 0 THEN <<>> ELSE <<"a">> \o Pad(n - 1)
Tails == LET C == {"a", LF, CR}
         IN  {<<>>} \cup {<<c>> : c \in C} \cup {<<c, d>> : c \in C, d \in C}
Texts == {t \in {Pad(n) \o u : n \in 0..MaxText, u \in Tails} : Len(t) <= MaxText}
Lists == LET L == {<<>>, <<"a">>, Pad(MaxText - 3)}
         IN  {<<>>} \cup {<<a>> : a \in L} \cup {<<a, b>> : a \in L, b \in L}
Mismatches == {Mismatch(e, a) : e \in {<<"h">>, EOF, Pad(MaxText)},
                                a \in {<<>>, <<"h", LF>>, Pad(MaxText - 1) \o <<LF>>}}

InitRaw ==
    /\ \/ pc = "raw" /\ raw_s \in Texts \cup {EOF}
       \/ pc = "join" /\ raw_s \in Lists
       \/ pc = "str" /\ raw_s \in Mismatches
    /\ raw_out = <<>>
    /\ test_cases = <<>>
    /\ dependency = [n \in Names |-> NoDep]
    /\ audited = [n \in Names |-> FALSE]
    /\ installed = TRUE
    /\ use_valgrind = <<>>
    /\ xml = <<>>
    /\ test_results = [n \in Names |-> UNSET]
    /\ cur = 0
    /\ result = <<>>
    /\ rationale = <<>>
    /\ helpers = <<>>
    /\ dir = <<>>
    /\ log = <<>>
    /\ children = <<>>
    /\ procs = <<>>
    /\ dirs = {"_"}
    /\ results = <<>>
    /\ failures = <<>>
    /\ outcome = "none"
    /\ raised = NoExc
    /\ torn = FALSE
    /\ reported = FALSE
    /\ exitCode = None
    /\ op = NoOp
    /\ expired = FALSE
    /\ bodyRuns = <<>>
    /\ killLog = <<>>
    /\ environ = Inherited

frameRaw == <<pc, declVars, caseVars, sessVars, unitVars, xml, cur, dir, dirs, results,
              failures, exitCode, bodyRuns, killLog, raw_s, environ>>

\* Mismatch.raw(s) of a string or of EOF
RawOfString ==
    /\ pc = "raw" /\ raw_out = <<>>
    /\ raw_out' = Raw(raw_s)
    /\ UNCHANGED frameRaw

\* Mismatch.raw(s) of a list: its strings are joined first
RawOfList ==
    /\ pc = "join" /\ raw_out = <<>>
    /\ raw_out' = Raw(Join(raw_s))
    /\ UNCHANGED frameRaw

\* str(mismatch)
StrOfMismatch ==
    /\ pc = "str" /\ raw_out = <<>>
    /\ raw_out' = Str(raw_s)
    /\ UNCHANGED frameRaw

NextRaw ==
    \/ RawOfString
    \/ RawOfList
    \/ StrOfMismatch

RawSpec == InitRaw /\ [][NextRaw]_vars

\* The suite of EnvSpec: check A and check B, which depends on A; their
\* bodies spawn sessions with and without extra variables
Envs == {NoEnv, {"EXTRA"}}
InitEnv ==
    /\ pc = "suite"
    /\ test_cases = <<"A", "B">>
    /\ dependency = [n \in Names |-> IF n = "B" THEN "A" ELSE NoDep]
    /\ audited = [n \in Names |-> FALSE]
    /\ installed = TRUE
    /\ use_valgrind = [i \in 1..N |-> FALSE]
    /\ xml = <<>>
    /\ test_results = [n \in Names |-> UNSET]
    /\ cur = 1
    /\ result = [i \in 1..N |-> FAIL]
    /\ rationale = [i \in 1..N |-> NoRationale]
    /\ helpers = [i \in 1..N |-> "None"]
    /\ dir = [i \in 1..N |-> NoDep]
    /\ bodyRuns = [i \in 1..N |-> 0]
    /\ log = <<>>
    /\ children = <<>>
    /\ procs = <<>>
    /\ dirs = {"_"}
    /\ results = <<>>
    /\ failures = <<>>
    /\ outcome = "none"
    /\ raised = NoExc
    /\ torn = FALSE
    /\ reported = FALSE
    /\ exitCode = None
    /\ op = NoOp
    /\ expired = FALSE
    /\ killLog = <<>>
    /\ environ = Inherited
    /\ raw_s = <<>>
    /\ raw_out = <<>>

NextEnv ==
    \/ Runner
    \/ Ends
    \/ \E env \in Envs : Spawn(Silent, env)

EnvSpec == InitEnv /\ [][NextEnv]_vars

\* The import of the checks module, its functions decorated with check and
\* with valgrind
NextDecl ==
    \/ Declaration
    \/ \E n \in Names : Valgrind(n)

DeclSpec == Init /\ [][NextDecl]_vars

\* time passes, and the loop of wait keeps polling
FairSessionSpec == SessionSpec /\ WF_vars(Tick) /\ WF_vars(WaitStep)

----------------------------------------------------------------------------
(* Properties of the runner *)

\* the evaluation of test case i is over
Ended(i) == i < cur \/ (i = cur /\ pc = "ended")
\* the name n was declared once
Once(n) == Cardinality({i \in 1..N : test_cases[i] = n}) = 1
\* test case j names test case i, declared before it, as its dependency
DependsOn(j, i) ==
    i < j /\ dependency[test_cases[j]] = test_cases[i] /\ Once(test_cases[i])
LastRecord == results[Len(results)]

\* the runner has reached a check whose dependency has no verdict PASS
GateClosed ==
    /\ pc = "suite" /\ cur <= N
    /\ dependency[test_cases[cur]] # NoDep
    /\ test_results[dependency[test_cases[cur]]] \in {FAIL, SKIP, UNSET}
\* the running check was stopped at the gate
Gated == pc = "ended" /\ bodyRuns[cur] = 0 /\ dir[cur] = NoDep

\* C1: a check whose dependency's recorded verdict is not PASS (FAIL, SKIP or
\* none) when the runner reaches it gets the verdict SKIP at once, and from then
\* on its body is not entered, no session is spawned, no directory is made and
\* the record handed to the TestResult says SKIP.
C1_SkipGate ==
    [][ /\ GateClosed =>
            /\ pc' = "ended" /\ cur' = cur
            /\ result'[cur] = SKIP
            /\ test_results'[test_cases[cur]] = SKIP
            /\ bodyRuns' = bodyRuns /\ dir' = dir /\ dirs' = dirs
            /\ procs' = procs /\ children' = children
        /\ Gated =>
            /\ result[cur] = SKIP
            /\ result' = result
            /\ bodyRuns' = bodyRuns /\ dir' = dir /\ dirs' = dirs
            /\ procs' = <<>> /\ children' = <<>>
            /\ pc' \in {"ended", "suite"}
            /\ results' # results =>
                  results' = Append(results, [test |-> cur, status |-> SKIP,
                                              rationale |-> rationale[cur],
                                              helpers |-> "None"])
      ]_vars

\* a check was skipped because the check it depends on failed
C1_Witness ==
    /\ Gated /\ reported
    /\ dependency[name] \notin {NoDep, name}
    /\ test_results[dependency[name]] = FAIL
    /\ LastRecord.test = cur /\ LastRecord.status = SKIP

RECURSIVE Downstream(_, _)
\* test case j is downstream of test case i in a chain of dependencies
Downstream(j, i) ==
    \/ DependsOn(j, i)
    \/ \E k \in (i + 1)..(j - 1) : DependsOn(j, k) /\ Downstream(k, i)

\* the chain of the scenario: A, B depending on A, C depending on B
Chain ==
    /\ test_cases = <<"A", "B", "C">>
    /\ dependency["A"] = NoDep /\ dependency["B"] = "A" /\ dependency["C"] = "B"

\* C2: once a check of a chain of dependencies ends with a verdict other than
\* PASS, every check downstream of it, at any distance, ends with SKIP; for the
\* chain A, B, C with A ending FAIL the records say A: FAIL, B: SKIP, C: SKIP.
C2_SkipPropagates ==
    /\ \A i, j \in 1..N :
          (Ended(i) /\ Ended(j) /\ Downstream(j, i) /\ result[i] # PASS)
              => result[j] = SKIP
    /\ (Chain /\ pc = "done" /\ Len(results) = 3 /\ results[1].status = FAIL)
          => (results[2].status = SKIP /\ results[3].status = SKIP)

\* the run of the chain A, B, C is over: A failed, B and C were skipped
C2_Witness ==
    /\ Chain /\ pc = "done"
    /\ result = <<FAIL, SKIP, SKIP>>
    /\ [i \in 1..3 |-> results[i].status] = <<FAIL, SKIP, SKIP>>

\* C3: an Error raised in a check is caught: its result, rationale and helpers
\* become the check's verdict and its record; the run is aborted by no Error, and
\* a run that ends has executed every check that has no dependency or whose
\* dependency passed.
C3_ErrorIsVerdict ==
    /\ (pc = "ended" /\ raised.exc = "Error") =>
          /\ outcome = "success"
          /\ result[cur] = raised.result
          /\ test_results[test_cases[cur]] = raised.result
          /\ rationale[cur] = raised.rationale
          /\ helpers[cur] = raised.helpers
          /\ reported =>
                LastRecord = [test |-> cur, status |-> raised.result,
                              rationale |-> raised.rationale,
                              helpers |-> raised.helpers]
    /\ raised.exc = "Error" => pc # "aborted"
    /\ pc = "done" =>
          \A j \in 1..N :
             (\/ dependency[test_cases[j]] = NoDep
              \/ \E i \in 1..N : DependsOn(j, i) /\ result[i] = PASS)
                 => bodyRuns[j] = 1

\* a run is over in which a check raised an Error asking for SKIP and a later
\* check without dependency was executed and passed
C3_Witness ==
    /\ pc = "done"
    /\ \E i, j \in 1..Len(results) :
          /\ i < j
          /\ results[i].status = SKIP
          /\ results[i].rationale = Text("check-specific rationale", <<>>)
          /\ results[i].helpers = "hint"
          /\ dependency[test_cases[results[j].test]] = NoDep
          /\ bodyRuns[results[j].test] = 1
          /\ results[j].status = PASS

\* C4: once a check has ended with an exception that is no Error (an assertion
\* failure of the test case included) and was handed to the TestResult, the run
\* is aborted with exit status 1.
C4_OtherExceptionAborts ==
    (raised.exc \notin {"none", "Error"} /\ reported) => (pc = "aborted" /\ exitCode = 1)

\* C5: when the run is aborted, when the next check starts and when the run is
\* over, the session list is empty and no process of the check that ended is
\* alive; tearDown kills the sessions in the reverse of the order of creation.
C5_SessionsKilled ==
    /\ (pc \in {"aborted", "done"} \/ (pc = "suite" /\ cur > 1)) =>
          (children = <<>> /\ \A k \in DOMAIN procs : ~procs[k].alive)
    /\ torn =>
          /\ children = <<>>
          /\ \A k \in DOMAIN procs : ~procs[k].alive
          /\ killLog = [i \in 1..Len(procs) |-> Len(procs) + 1 - i]

\* C6: a run that ends without abort has one record per declared check, in the
\* order of declaration, and has entered no check body twice.
C6_OneRecordPerCheck ==
    /\ \A i \in DOMAIN bodyRuns : bodyRuns[i] <= 1
    /\ pc = "done" =>
          (Len(results) = N /\ \A i \in 1..N : results[i].test = i)

\* C8: the list of declared check names holds no name twice.
C8_NoDuplicateName ==
    \A i, j \in 1..N : i # j => test_cases[i] # test_cases[j]

\* the evaluation of test case i has not completed
Pending(i) == i > cur \/ (i = cur /\ pc \in {"suite", "body"})

\* C18: a record with the status PASS has no rationale; a test case has the
\* verdict PASS only if its body was entered and ended without an exception,
\* and a rationale only with the verdict FAIL or SKIP; until its evaluation
\* completes its verdict is FAIL.
C18_PassWithoutRationale ==
    /\ \A j \in 1..Len(results) :
          results[j].status = PASS => results[j].rationale = NoRationale
    /\ \A i \in DOMAIN result :
          /\ result[i] = PASS => (rationale[i] = NoRationale /\ bodyRuns[i] = 1)
          /\ (result[i] = PASS /\ i = cur) => raised = NoExc
          /\ rationale[i] # NoRationale => result[i] \in {FAIL, SKIP}
          /\ Pending(i) => result[i] = FAIL

----------------------------------------------------------------------------
(* Properties of the sessions *)

TimedOutExit == Error(Text("timed out while waiting for program to exit", <<>>), "None", FAIL)

\* C7: wait and exit end: when the deadline has passed with the process alive
\* and its output open, the next step of wait raises the Error "timed out while
\* waiting for program to exit" and does not wait further; the check's verdict
\* and record are FAIL, the run goes on, tearDown kills the process, and no
\* process is left when the next check starts.
C7_WaitTimesOut ==
    /\ [][ /\ ( /\ op.name = "wait" /\ expired
                /\ procs[op.k].alive /\ ~procs[op.k].eof
                /\ op' # op ) =>
                  (raised' = TimedOutExit /\ op' = NoOp /\ procs' = procs)
          /\ (raised = TimedOutExit /\ pc' = "suite") => procs' = <<>>
        ]_vars
    /\ [](raised = TimedOutExit =>
            /\ pc = "ended" /\ outcome = "success"
            /\ result[cur] = FAIL /\ test_results[test_cases[cur]] = FAIL
            /\ torn => \A k \in DOMAIN procs : procs[k].closed /\ ~procs[k].alive
            /\ reported => (LastRecord.test = cur /\ LastRecord.status = FAIL))
    /\ (op.name = "wait" ~> op.name # "wait")

\* a wait timed out on a process that never exited; tearDown has killed it and
\* the check is recorded as FAIL
C7_Witness ==
    /\ raised = TimedOutExit /\ torn /\ reported
    /\ killLog # <<>>
    /\ \E k \in DOMAIN procs : procs[k].code = None /\ ~procs[k].alive

\* C9: a stdout with an expected value that ends without a match on an open
\* session raises an Error, caught as the check's FAIL: "timed out while waiting
\* for" the rendered expectation exactly when the deadline has passed, and a
\* Mismatch of the expectation and the output captured so far exactly when it has
\* not, which happens only when the output has ended and all of it was read.
C9_TimeoutOrMismatch ==
    [][ ( /\ op.name = "stdout" /\ op.output # EOF /\ op' = NoOp
          /\ ~procs[op.k].closed
          /\ Matches(procs[op.k].buffer, op.output, op.literal) = {} ) =>
            /\ raised'.exc = "Error"
            /\ pc' = "ended" /\ outcome' = "success"
            /\ result'[cur] = FAIL
            /\ rationale'[cur] = raised'.rationale
            /\ IF expired
               THEN raised'.rationale =
                       Text("timed out while waiting for", Raw(op.str_output))
               ELSE /\ procs[op.k].eof /\ procs[op.k].pipe = <<>>
                    /\ raised'.rationale =
                          Mismatch(op.str_output, FromTerminal(procs[op.k].buffer))
      ]_vars

\* the process printed h and ended where the check expected h and a newline
C9_Witness ==
    /\ pc = "ended"
    /\ raised = Error(Mismatch(<<"h", LF>>, <<"h">>), "None", FAIL)
    /\ result[cur] = FAIL

\* C10: a stdout expecting the end of the output returns only when the output
\* has ended with nothing captured before its end; when the output has ended
\* after some output, it raises Error(Mismatch(EOF, that output)).
C10_ExpectEOF ==
    [][ (op.name = "stdout" /\ op.output = EOF /\ op' = NoOp) =>
          /\ raised' = NoExc =>
                /\ procs[op.k].eof /\ procs[op.k].pipe = <<>>
                /\ procs[op.k].buffer = <<>>
                /\ pc' = "body"
          /\ ( /\ procs[op.k].eof /\ procs[op.k].pipe = <<>>
               /\ procs[op.k].buffer # <<>>
               /\ ~expired /\ ~procs[op.k].closed ) =>
                /\ raised' = Error(Mismatch(EOF, FromTerminal(procs[op.k].buffer)),
                                   "None", FAIL)
                /\ result'[cur] = FAIL
      ]_vars

\* the check expected the end of the output and the process printed a line first
C10_Witness ==
    /\ pc = "ended"
    /\ raised = Error(Mismatch(EOF, <<"h", LF>>), "None", FAIL)
    /\ result[cur] = FAIL

NoPrompt == Error(Text("expected prompt for input, found none", <<>>), "None", FAIL)

\* C11: a stdin with prompt writes only after output of the child was read: when
\* the deadline passes with nothing read it raises the Error "expected prompt for
\* input, found none" and writes nothing; when it writes (after output was read,
\* or at once without prompt) it writes the text and a newline, or signals the
\* end of the input for EOF.
C11_PromptBeforeInput ==
    [][ /\ (op.name = "stdin" /\ op' = NoOp) =>
            LET c == procs[op.k]
                d == procs'[op.k]
            IN  /\ (c.buffer = <<>> /\ expired /\ ~c.closed) =>
                      (raised' = NoPrompt /\ result'[cur] = FAIL /\ d.sent = c.sent)
                /\ d.sent # c.sent =>
                      /\ c.buffer # <<>>
                      /\ raised' = NoExc
                      /\ d.sent = Append(c.sent, IF op.line = EOF THEN EOF
                                                 ELSE op.line \o <<LF>>)
                /\ raised' = NoExc => d.sent # c.sent
        /\ \A k \in DOMAIN procs \cap DOMAIN procs' :
              procs'[k].sent # procs[k].sent =>
                 \/ op.name \in {"stdin", "reject"} /\ op.k = k /\ procs[k].buffer # <<>>
                 \/ /\ InBody /\ log' # log
                    /\ log'[Len(log')].msg \in {"sending input", "sending EOF"}
                    /\ procs'[k].sent =
                          Append(procs[k].sent,
                                 IF log'[Len(log')].arg = EOF THEN EOF
                                 ELSE log'[Len(log')].arg \o <<LF>>)
      ]_vars

\* a stdin with prompt timed out on a silent process: nothing was written
C11_Witness ==
    /\ pc = "ended" /\ raised = NoPrompt
    /\ result[cur] = FAIL
    /\ procs # <<>>
    /\ \A k \in DOMAIN procs : procs[k].sent = <<>> /\ procs[k].buffer = <<>>

\* C12: when wait has seen the process end, the session has the exit status of
\* the process (none if it had to be killed); exit without a code compares and
\* logs nothing; exit with the code the process exited with raises nothing; exit
\* with another code raises the Error "expected exit code". A process that
\* exited with 0 by itself passes exit(0).
C12_ExitCode ==
    [][ ( /\ op.name = "wait" /\ op' = NoOp
          /\ ~procs[op.k].closed /\ procs'[op.k].closed ) =>
            LET c == procs[op.k]
                d == procs'[op.k]
            IN  /\ d.exitstatus = IF c.alive THEN None ELSE c.code
                /\ op.code = None => (raised' = NoExc /\ pc' = "body" /\ log' = log)
                /\ (op.code # None /\ d.exitstatus = op.code) =>
                      (raised' = NoExc /\ pc' = "body")
                /\ (op.code # None /\ d.exitstatus # op.code) =>
                      /\ raised' = Error(Text("expected exit code",
                                               <<op.code, d.exitstatus>>), "None", FAIL)
                      /\ result'[cur] = FAIL
                /\ (op.code = 0 /\ ~c.alive /\ c.code = 0) => raised' = NoExc
      ]_vars

\* the scenario: a process printed a line and exited with 0; the check expected
\* the line, then exit(0), and passed
C12_Witness ==
    /\ pc = "ended" /\ result[cur] = PASS
    /\ Len(procs) = 1
    /\ procs[1].exitstatus = 0 /\ procs[1].code = 0
    /\ log = <<Text("running", <<"h", LF>>),
               Text("checking for output", <<"h">>),
               Text("checking that program exited with status", <<0>>)>>

\* text occurs in buf as it is
Verbatim(buf, text) ==
    \E i \in 1..Len(buf) :
       i + Len(text) - 1 <= Len(buf) /\ SubSeq(buf, i, i + Len(text) - 1) = text
\* some part of buf is the text, a dot of the text standing for any character
PatternHit(buf, text) ==
    \E i \in 1..Len(buf) :
       /\ i + Len(text) - 1 <= Len(buf)
       /\ \A j \in 1..Len(text) : text[j] \in {".", buf[i + j - 1]}

\* C16: a stdout that expects the content of a File ends with a match exactly
\* when the output read so far holds that content verbatim; one that expects
\* a string ends with a match exactly when the output matches it as a pattern.
\* So "." against output without a dot matches as a pattern and does not match
\* as a literal.
C16_MatcherByKind ==
    [][(pc = "body" /\ op.name = "stdout" /\ op.output # EOF /\ op' = NoOp) =>
         LET buf == procs[op.k].buffer
             matched == pc' = "body" /\ raised' = NoExc
         IN  /\ op.literal => (matched <=> Verbatim(buf, op.output))
             /\ ~op.literal => (matched <=> PatternHit(buf, op.output))
             /\ (op.output = <<".">> /\ buf # <<>> /\ ~Verbatim(buf, <<".">>)) =>
                   (matched <=> ~op.literal)]_vars

\* the literal "." was not found in the output "h" LF, which the pattern "."
\* matches
C16_Witness ==
    /\ pc = "ended"
    /\ result[cur] = FAIL
    /\ rationale[cur] = Mismatch(<<".">>, <<"h", LF>>)
    /\ PatternHit(<<"h", CR, LF>>, <<".">>)

\* C19: a session that has its exit status from wait or exit keeps its output
\* and its exit status through every later step of the check and through
\* tearDown, and a wait or exit on it ends by returning or with an Error, never
\* with another exception.
C19_SessionImmutable ==
    [][(pc \in {"body", "ended"} /\ pc' # "suite") =>
         \A k \in DOMAIN procs :
            procs[k].exitstatus # None =>
               /\ procs'[k].output = procs[k].output
               /\ procs'[k].exitstatus = procs[k].exitstatus
               /\ (op.name = "wait" /\ op.k = k /\ op' = NoOp) =>
                     raised'.exc \in {"none", "Error"}]_vars

\* C21: the exit status of a session is None until a wait or exit on it
\* returns; when one returns normally, whichever way its polling loop ended,
\* the exit status is the code with which the process ended, not None, and the
\* process is not alive.
C21_ExitStatusSet ==
    [][pc = "body" =>
         \A k \in DOMAIN procs :
            LET returns == /\ op.name = "wait" /\ op.k = k /\ op' = NoOp
                           /\ pc' = "body" /\ raised' = NoExc
            IN  /\ (procs[k].exitstatus = None /\ procs'[k].exitstatus # None) =>
                      (op.name = "wait" /\ op.k = k /\ op' = NoOp)
                /\ returns =>
                      /\ procs'[k].exitstatus # None
                      /\ procs'[k].exitstatus = procs'[k].code
                      /\ ~procs'[k].alive]_vars

\* a stdin without prompt, which writes at once
SendsAtOnce ==
    /\ op = NoOp /\ op' = NoOp
    /\ Len(log') = Len(log) + 1
    /\ log'[Len(log')].msg \in {"sending input", "sending EOF"}

\* C22: on a session that no wait has closed, no step of stdin, stdout,
\* reject, wait or exit ends the check with an exception other than an Error;
\* when the output has ended with nothing to read, stdin and reject end the
\* check with an Error.
C22_OperationsFailLocally ==
    [][pc = "body" =>
         /\ (op # NoOp /\ ~procs[op.k].closed) => raised'.exc \in {"none", "Error"}
         /\ (SendsAtOnce /\ \A k \in DOMAIN procs : ~procs[k].closed) =>
               raised'.exc \in {"none", "Error"}
         /\ ( /\ op # NoOp /\ op.name \in {"stdin", "reject"} /\ op' = NoOp
              /\ ~procs[op.k].closed /\ procs[op.k].eof
              /\ procs[op.k].buffer = <<>> /\ procs[op.k].pipe = <<>> ) =>
               (pc' = "ended" /\ raised'.exc = "Error")]_vars

----------------------------------------------------------------------------
(* Properties of the checks under valgrind *)

NotInstalled == Text("valgrind not installed", <<>>)
RecordsOf(i) == {k \in 1..Len(results) : results[k].test = i}

\* C13: where valgrind is not installed, a check decorated with it never has
\* its body entered and never spawns a session; it ends with the verdict SKIP
\* and the rationale "valgrind not installed", recorded as SKIP; the run is not
\* aborted, and the checks that depend on it end with SKIP, their bodies not
\* entered.
C13_NoValgrindSkips ==
    \A i \in 1..N :
       (audited[test_cases[i]] /\ ~installed) =>
          /\ bodyRuns[i] = 0
          /\ cur = i => (procs = <<>> /\ pc \notin {"body", "aborted"})
          /\ Ended(i) =>
                /\ result[i] = SKIP
                /\ test_results[test_cases[i]] = SKIP
                /\ rationale[i] = NotInstalled
          /\ i < cur =>
                (RecordsOf(i) # {} /\ \A k \in RecordsOf(i) : results[k].status = SKIP)
          /\ \A j \in 1..N :
                (Ended(j) /\ DependsOn(j, i)) => (result[j] = SKIP /\ bodyRuns[j] = 0)

\* the run is over without abort: the check under valgrind was skipped because
\* the tool is missing, and so was the check that depends on it
C13_Witness ==
    /\ pc = "done" /\ exitCode = 0
    /\ ~installed /\ audited[test_cases[1]]
    /\ rationale[1] = NotInstalled
    /\ result = <<SKIP, SKIP>>
    /\ bodyRuns = <<0, 0>>
    /\ [k \in 1..Len(results) |-> results[k].status] = <<SKIP, SKIP>>

InLog(msg) == \E k \in 1..Len(log) : log[k].msg = msg
AuditLogged == InLog("checking for valgrind errors")

\* C14: the sessions of a check decorated with valgrind, and no others, run
\* under valgrind; _valgrind is set only while the body of such a check runs;
\* the report is checked exactly when that body returned (never after it
\* raised, never for another check); a report with findings makes the verdict
\* FAIL, and a verdict PASS means that the report was checked and had none.
C14_AuditedCheck ==
    /\ \A k \in DOMAIN procs :
          /\ procs[k].valgrind = audited[test_cases[cur]]
          /\ (log[k].msg = "running valgrind") = audited[test_cases[cur]]
    /\ \A i \in DOMAIN use_valgrind :
          use_valgrind[i] = (pc = "body" /\ i = cur /\ audited[test_cases[i]])
    /\ AuditLogged =>
          /\ pc = "ended" /\ audited[test_cases[cur]] /\ bodyRuns[cur] = 1
          /\ raised \in {NoExc, ValgrindFailed}
          /\ raised = ValgrindFailed <=> Findings(xml, {}) # <<>>
          /\ result[cur] = IF Findings(xml, {}) # <<>> THEN FAIL ELSE PASS
    /\ (pc = "ended" /\ audited[test_cases[cur]] /\ bodyRuns[cur] = 1) =>
          /\ raised = NoExc => AuditLogged
          /\ raised = NoExc => result[cur] = PASS

\* a check under valgrind spawned a session, its body returned, the report had
\* findings: the verdict is FAIL and _valgrind is reset
C14_Witness ==
    /\ pc = "ended" /\ audited[test_cases[cur]]
    /\ procs # <<>> /\ \A k \in DOMAIN procs : procs[k].valgrind
    /\ AuditLogged /\ raised = ValgrindFailed
    /\ result[cur] = FAIL
    /\ ~use_valgrind[cur]

\* what _check_valgrind appended to the log after its heading
Logged ==
    LET h == CHOOSE k \in 1..Len(log) : log[k].msg = "checking for valgrind errors"
    IN  SubSeq(log, h + 1, Len(log))
\* the place of the first entry of the report that renders as msg
First(msg) == Min({i \in 1..Len(xml) : Msg(xml[i]) = msg})

\* C15: after the report was checked, the log holds each distinct message of
\* the report once, in the order of first occurrence, so as many findings as
\* there are distinct messages; the check fails with the valgrind Error if and
\* only if the report has an entry. Two equal leak entries give one finding
\* and FAIL.
C15_DistinctFindings ==
    AuditLogged =>
       /\ Len(Logged) = Cardinality({Msg(xml[i]) : i \in 1..Len(xml)})
       /\ \A p \in 1..Len(Logged) : \E i \in 1..Len(xml) : Logged[p] = Msg(xml[i])
       /\ \A p, q \in 1..Len(Logged) :
             p < q => (Logged[p] # Logged[q] /\ First(Logged[p]) < First(Logged[q]))
       /\ (raised = ValgrindFailed /\ result[cur] = FAIL) <=> xml # <<>>
       /\ xml = <<>> => (raised = NoExc /\ result[cur] = PASS)
       /\ (Len(xml) = 2 /\ xml[1] = xml[2] /\ IsLeak(xml[1].kind)) =>
             (Len(Logged) = 1 /\ result[cur] = FAIL)

\* the report had the same leak twice: one finding in the log, verdict FAIL
C15_Witness ==
    /\ AuditLogged
    /\ Len(xml) = 2 /\ xml[1] = xml[2] /\ IsLeak(xml[1].kind)
    /\ Logged = <<Text("lost", <<"f.c", 1>>)>>
    /\ result[cur] = FAIL

----------------------------------------------------------------------------
(* Properties of the declaration *)

\* C24: the decorator valgrind marks a function whenever that function's name
\* is not the check registered last, also when no check is registered yet; it
\* ends the declaration only where the name is the check registered last, and
\* then with an InternalError.
C24_OrderingGuard ==
    [][pc = "declare" =>
         /\ \A n \in Names :
               (audited'[n] /\ ~audited[n]) =>
                  (test_cases = <<>> \/ test_cases[Len(test_cases)] # n)
         /\ pc' = "aborted" =>
               /\ raised'.exc = "InternalError"
               /\ test_cases # <<>>
               /\ ~audited[test_cases[Len(test_cases)]] =>
                     ~audited'[test_cases[Len(test_cases)]]]_vars

----------------------------------------------------------------------------
(* Properties of the environment *)

\* C23: the environment of check50 stays the one it was started with, and
\* the process of every session has that environment and the variables given
\* to its own spawn, no others: a session spawned without env has none of the
\* variables given to earlier spawns.
C23_EnvOnlyForSession ==
    /\ environ = Inherited
    /\ \A k \in DOMAIN procs : procs[k].env = Inherited \cup procs[k].given

----------------------------------------------------------------------------
(* Properties of the formatter *)

Quoted(t) == <<"\"">> \o t \o <<"\"">>
Plain(t) == \A i \in 1..Len(t) : t[i] \notin {LF, CR}
\* the rendering the formatter owes for t
Rendered(t) ==
    IF t = EOF THEN <<"E", "O", "F">>
    ELSE IF Len(Repr(t)) > 15
    THEN Quoted(SubSeq(Repr(t), 1, 15) \o <<".", ".", ".">>)
    ELSE Quoted(Repr(t))

\* C17: Mismatch.raw renders EOF as EOF; a string whose escaped form has more
\* than 15 characters as the first 15 characters of that form followed by
\* "..."; any other string as its whole escaped form, which is the string
\* itself when it has no line ends. str(mismatch) renders both of its parts
\* that way.
C17_RawTruncates ==
    /\ (pc = "raw" /\ raw_out # <<>>) =>
          /\ raw_s = EOF => raw_out = <<"E", "O", "F">>
          /\ (raw_s # EOF /\ Len(Repr(raw_s)) > 15) =>
                /\ Len(raw_out) = 20
                /\ SubSeq(raw_out, 2, 16) = SubSeq(Repr(raw_s), 1, 15)
                /\ SubSeq(raw_out, 17, 19) = <<".", ".", ".">>
          /\ (raw_s # EOF /\ Len(Repr(raw_s)) <= 15) => raw_out = Quoted(Repr(raw_s))
          /\ (raw_s # EOF /\ Len(raw_s) <= 15 /\ Plain(raw_s)) => raw_out = Quoted(raw_s)
    /\ (pc = "join" /\ raw_out # <<>>) => raw_out = Rendered(Join(raw_s))
    /\ (pc = "str" /\ raw_out # <<>>) =>
          raw_out.arg = <<Rendered(raw_s.expected), Rendered(raw_s.actual)>>

\* a string of 15 characters whose escaped form has 16 was cut within the
\* escape of its line end
C17_Witness ==
    /\ pc = "raw"
    /\ raw_s = Pad(14) \o <<LF>>
    /\ raw_out = Quoted(Pad(14) \o <<"\\", ".", ".", ".">>)

====
